---- MODULE Spec2Model ----
(***************************************************************************)
(* A model of scraper.py: the table-of-contents walker                     *)
(* (get_structured_urls), the content normalizer                           *)
(* (scrape_and_clean_content), extract_chapter_number, the orchestrator    *)
(* (main) and the text splitter main configures.                           *)
(*                                                                         *)
(* Strings are sequences.  A text handed to the splitter is a sequence of  *)
(* one-character strings.  An address is a sequence of tokens: every "/",  *)
(* "?" and "#" is a token of its own and the text between two of them is   *)
(* one token, so a substring test for "/chapter/" is a test for the three  *)
(* consecutive tokens "/", "chapter", "/".                                 *)
(***************************************************************************)
EXTENDS Integers, Sequences, FiniteSets, TLC

VARIABLES
    pc,               \* position of main: "start", "loop", "save", "done", "raised"
    seed,             \* what requests.get(base_url) answers (the environment's input)
    structured_urls,  \* main's structured_urls: the walker's return value
    idx,              \* number of loop iterations of main completed (enumerate's i)
    all_chunks,       \* main's all_chunks
    visits,           \* history: per completed iteration, what was fetched and split
    saved,            \* the output file: <<>> (not written) or <<all_chunks>>
    text,             \* input of split_text when the splitter is run on its own
    split_out         \* <<>> before split_text returns, <<chunks>> after

vars == <<pc, seed, structured_urls, idx, all_chunks, visits, saved, text, split_out>>

----------------------------------------------------------------------------
(* Bounds of the model.                                                    *)

\* chunk_size and chunk_overlap of main (1000 and 150), scaled down so that
\* texts of a few characters already exceed the budget.
chunk_size == 5
chunk_overlap == 2
\* Longest text given to split_text on its own.
MaxLen == 7
\* Characters of those texts: a letter, a space, a full stop, a line break.
Alphabet == {"a", " ", ".", "\n"}
\* Links under one top-level item when the walker is run on its links
\* (WalkSpec); the table of contents then has up to two items.
MaxLinks == 2
\* Top-level items when the walker is run on part headers (PartSpec); an item
\* then has up to two links.
MaxItems == 2
\* Links of the one top-level item of the tables of contents main is run on.
MainLinks == 3

----------------------------------------------------------------------------
(* Sequence helpers.                                                       *)

RECURSIVE Concat(_)
\* "".join(parts)
Concat(parts) ==
    IF parts = <<>> THEN <<>> ELSE Head(parts) \o Concat(Tail(parts))

\* Python's str.isspace() on one character
IsSpace(c) == c \in {" ", "\n", "\t", "\r"}

RECURSIVE LStrip(_)
LStrip(s) ==
    IF s # <<>> /\ IsSpace(Head(s)) THEN LStrip(Tail(s)) ELSE s

RECURSIVE RStrip(_)
RStrip(s) ==
    IF s # <<>> /\ IsSpace(s[Len(s)]) THEN RStrip(SubSeq(s, 1, Len(s) - 1)) ELSE s

\* str.strip()
Strip(s) == RStrip(LStrip(s))

\* needle in hay (Python's substring test), on sequences
Contains(hay, needle) ==
    \E k \in 1..(Len(hay) - Len(needle) + 1) :
        SubSeq(hay, k, k + Len(needle) - 1) = needle

StartsWith(s, p) == Len(s) >= Len(p) /\ SubSeq(s, 1, Len(p)) = p

EndsWith(s, p) == Len(s) >= Len(p) /\ SubSeq(s, Len(s) - Len(p) + 1, Len(s)) = p

\* All sequences over S of length at most n
SeqsUpTo(S, n) == UNION {[1..k -> S] : k \in 0..n}

----------------------------------------------------------------------------
(* The splitter: RecursiveCharacterTextSplitter of langchain_text_splitters *)
(* as main constructs it (separators given, chunk_size, chunk_overlap; the  *)
(* library defaults keep_separator=True, is_separator_regex=False,          *)
(* length_function=len, strip_whitespace=True).                             *)

\* separators=["\n\n", "\n", ". ", "? ", "! "]
separators == << <<"\n", "\n">>, <<"\n">>, <<".", " ">>, <<"?", " ">>, <<"!", " ">> >>

\* keep_separator=True: a kept separator is merged back with the empty string
merge_separator == <<>>

RECURSIVE ReSplit(_, _, _)
\* re.split("(sep)", text) with each separator glued to the front of the piece
\* that follows it: [_splits[0]] + [_splits[i] + _splits[i+1] for odd i].
\* cur is the piece being read.
ReSplit(t, sep, cur) ==
    IF t = <<>> THEN <<cur>>
    ELSE IF StartsWith(t, sep)
         THEN <<cur>> \o ReSplit(SubSeq(t, Len(sep) + 1, Len(t)), sep, sep)
         ELSE ReSplit(Tail(t), sep, Append(cur, Head(t)))

\* _split_text_with_regex(text, separator, keep_separator=True): empty pieces dropped
SplitTextWithRegex(t, sep) ==
    SelectSeq(ReSplit(t, sep, <<>>), LAMBDA s : s # <<>>)

\* JoinDocs without the test for an empty document
JoinDocs_KeepEmpty(docs) == <<Strip(Concat(docs))>>

\* _join_docs: join, strip, and None (here: no document) for an empty result
JoinDocs(docs) ==
    LET joined == Strip(Concat(docs))
    IN  IF joined = <<>> THEN <<>> ELSE <<joined>>

\* the length the separator adds when current_doc already holds n pieces
SepLen(n) == IF n > 0 THEN Len(merge_separator) ELSE 0

RECURSIVE DropForOverlap_NoLimit(_, _, _)
\* DropForOverlap without the chunk_overlap limit: pieces are only popped to
\* make room for the next piece
DropForOverlap_NoLimit(cur, total, dlen) ==
    IF total + dlen > chunk_size /\ total > 0
    THEN DropForOverlap_NoLimit(Tail(cur), total - Len(Head(cur)), dlen)
    ELSE [doc |-> cur, total |-> total]

RECURSIVE DropForOverlap(_, _, _)
\* the while loop of _merge_splits: pop pieces off the front of current_doc
\* until what is left fits the overlap and leaves room for the next piece
DropForOverlap(cur, total, dlen) ==
    IF total > chunk_overlap
       \/ (total + dlen + SepLen(Len(cur)) > chunk_size /\ total > 0)
    THEN DropForOverlap(Tail(cur),
                        total - (Len(Head(cur)) + (IF Len(cur) > 1 THEN Len(merge_separator) ELSE 0)),
                        dlen)
    ELSE [doc |-> cur, total |-> total]

RECURSIVE MergeLoop(_, _, _, _)
\* the for loop of _merge_splits over the remaining splits
MergeLoop(splits, docs, cur, total) ==
    IF splits = <<>> THEN docs \o JoinDocs(cur)
    ELSE LET d == Head(splits)
             over == total + Len(d) + SepLen(Len(cur)) > chunk_size
             flush == over /\ Len(cur) > 0
             docs2 == IF flush THEN docs \o JoinDocs(cur) ELSE docs
             kept == IF flush THEN DropForOverlap(cur, total, Len(d))
                     ELSE [doc |-> cur, total |-> total]
             cur2 == Append(kept.doc, d)
         IN  MergeLoop(Tail(splits), docs2, cur2,
                       kept.total + Len(d) + (IF Len(cur2) > 1 THEN Len(merge_separator) ELSE 0))

\* _merge_splits(splits, separator)
MergeSplits(splits) == MergeLoop(splits, <<>>, <<>>, 0)

\* index of the first separator that occurs in the text, 0 when none does
FirstSeparator(t, seps) ==
    IF \E k \in 1..Len(seps) : Contains(t, seps[k])
    THEN CHOOSE k \in 1..Len(seps) :
            Contains(t, seps[k]) /\ \A j \in 1..(k - 1) : ~Contains(t, seps[j])
    ELSE 0

RECURSIVE SplitText(_, _)
RECURSIVE SplitLoop(_, _, _, _)
\* the for loop of _split_text over the splits
SplitLoop(splits, new_separators, final_chunks, good_splits) ==
    IF splits = <<>>
    THEN IF good_splits # <<>> THEN final_chunks \o MergeSplits(good_splits)
         ELSE final_chunks
    ELSE LET s == Head(splits)
         IN  IF Len(s) < chunk_size
             THEN SplitLoop(Tail(splits), new_separators, final_chunks, Append(good_splits, s))
             ELSE LET flushed == IF good_splits # <<>>
                                 THEN final_chunks \o MergeSplits(good_splits)
                                 ELSE final_chunks
                      sub == IF new_separators = <<>> THEN <<s>>
                             ELSE SplitText(s, new_separators)
                  IN  SplitLoop(Tail(splits), new_separators, flushed \o sub, <<>>)

\* _split_text(text, separators)
SplitText(t, seps) ==
    LET k == FirstSeparator(t, seps)
        separator == IF k = 0 THEN seps[Len(seps)] ELSE seps[k]
        new_separators == IF k = 0 THEN <<>> ELSE SubSeq(seps, k + 1, Len(seps))
    IN  SplitLoop(SplitTextWithRegex(t, separator), new_separators, <<>>, <<>>)

\* text_splitter.split_text(content)
split_text(t) == SplitText(t, separators)

----------------------------------------------------------------------------
(* Optional values: None is the empty sequence, a present value v is <<v>>. *)

None == <<>>
Some(v) == <<v>>

\* what a call hands back: a value, or an exception that leaves the function
Returned(v) == [raised |-> FALSE, value |-> v]
Raised == [raised |-> TRUE, value |-> None]

----------------------------------------------------------------------------
(* Addresses.                                                              *)

\* base_url of main
base_url == <<"https:", "/", "/", "wtcs.pressbooks.pub", "/", "nurseassist", "/">>

\* everything of an address up to and including the last "/" of its path
RECURSIVE DirOf(_)
DirOf(u) ==
    IF u = <<>> \/ u[Len(u)] = "/" THEN u ELSE DirOf(SubSeq(u, 1, Len(u) - 1))

\* urllib.parse.urljoin(base, url), for a base without query or fragment and a
\* url without "." and ".." segments: a url with a scheme stands for itself, one
\* that starts with "/" replaces the path, one that starts with "?" or "#" is
\* added to the base, any other is resolved against the base's directory.
urljoin(base, url) ==
    IF url = <<>> THEN base
    ELSE IF url[1] \in {"https:", "http:"} THEN url
    ELSE IF url[1] = "/" THEN SubSeq(base, 1, 4) \o url
    ELSE IF url[1] \in {"?", "#"} THEN base \o url
    ELSE DirOf(base) \o url

----------------------------------------------------------------------------
(* get_structured_urls: the table-of-contents walker.                      *)
(*                                                                         *)
(* A response is [status, toc]: status "unreachable" (requests.get raises), *)
(* "http_error" (raise_for_status raises) or "ok"; toc is None or           *)
(* Some(sequence of top-level li).  A li is [class, header, links]: class   *)
(* its set of class names, header None or Some([span |-> None or            *)
(* Some(text)]) (the div.toc-part-header and its span.part-text), links the *)
(* href (None when the attribute is missing) of every a under the li in     *)
(* document order, nested ones included.                                    *)

\* lines 15-16: requests.get or raise_for_status raises a RequestException
RequestFails(response) == response.status \in {"unreachable", "http_error"}

\* line 42: href and ('/chapter/' in href or '/front-matter/' in href)
IsContentHref(href) ==
    /\ href # None
    /\ href[1] # <<>>
    /\ \/ Contains(href[1], <<"/", "chapter", "/">>)
       \/ Contains(href[1], <<"/", "front-matter", "/">>)

\* NewPartTitle that falls back to the default when a part has no name
NewPartTitle_Reset(li, current_part_title) ==
    IF "part" \in li.class
    THEN IF li.header # None /\ li.header[1].span # None
         THEN Strip(li.header[1].span[1])
         ELSE <<"General">>
    ELSE current_part_title

\* lines 33-36: the title carried after looking at li
NewPartTitle(li, current_part_title) ==
    IF "part" \in li.class /\ li.header # None /\ li.header[1].span # None
    THEN Strip(li.header[1].span[1])
    ELSE current_part_title

RECURSIVE LinkRecords(_, _)
\* lines 39-47: one record for every link of the li that passes the test
LinkRecords(links, current_part_title) ==
    IF links = <<>> THEN <<>>
    ELSE (IF IsContentHref(Head(links))
          THEN <<[url |-> urljoin(base_url, Head(links)[1]),
                  part_title |-> current_part_title]>>
          ELSE <<>>)
         \o LinkRecords(Tail(links), current_part_title)

RECURSIVE WalkItems(_, _)
\* lines 31-47: the loop over the top-level li
WalkItems(items, current_part_title) ==
    IF items = <<>> THEN <<>>
    ELSE LET title == NewPartTitle(Head(items), current_part_title)
         IN  LinkRecords(Head(items).links, title) \o WalkItems(Tail(items), title)

\* Dedupe that keeps every item
Dedupe_KeepAll(items, seen_urls) == items

RECURSIVE Dedupe(_, _)
\* lines 50-55: keep an item when its url was not seen before
Dedupe(items, seen_urls) ==
    IF items = <<>> THEN <<>>
    ELSE IF Head(items).url \notin seen_urls
         THEN <<Head(items)>> \o Dedupe(Tail(items), seen_urls \cup {Head(items).url})
         ELSE Dedupe(Tail(items), seen_urls)

\* line 29
DefaultPartTitle == <<"General">>

\* get_structured_urls without the except clause
get_structured_urls_uncaught(response) ==
    IF RequestFails(response) THEN Raised
    ELSE IF response.toc = None THEN Returned(<<>>)
    ELSE Returned(Dedupe(WalkItems(response.toc[1], <<"General">>), {}))

\* get_structured_urls(base_url), given what the seed address answers
get_structured_urls(response) ==
    IF RequestFails(response) THEN Returned(<<>>)
    ELSE IF response.toc = None THEN Returned(<<>>)
    ELSE Returned(Dedupe(WalkItems(response.toc[1], DefaultPartTitle), {}))

----------------------------------------------------------------------------
(* scrape_and_clean_content and extract_chapter_number.                    *)
(*                                                                         *)
(* A content response is [status, section]: section is None or             *)
(* Some([h1, objectives, paragraphs]), h1 and objectives None or           *)
(* Some(text), paragraphs the texts of the p elements in document order.   *)

\* get_text(strip=True) of an element holding one text
GetText(t) == Strip(t)

RECURSIVE JoinWithSpace(_)
\* ' '.join(text_parts)
JoinWithSpace(parts) ==
    IF parts = <<>> THEN <<>>
    ELSE IF Len(parts) = 1 THEN Head(parts)
    ELSE Head(parts) \o <<" ">> \o JoinWithSpace(Tail(parts))

RECURSIVE CollapseSpaces(_)
\* re.sub(r'\s+', ' ', full_text)
CollapseSpaces(t) ==
    IF t = <<>> THEN <<>>
    ELSE IF IsSpace(Head(t)) THEN <<" ">> \o CollapseSpaces(LStrip(t))
    ELSE <<Head(t)>> \o CollapseSpaces(Tail(t))

\* line 78
NoTitle == <<"No Title Found">>

\* scrape_and_clean_content(url), given what the address answers: title and
\* content are None or Some(text)
scrape_and_clean_content(response) ==
    IF RequestFails(response) THEN Returned([title |-> None, content |-> None])
    ELSE IF response.section = None THEN Returned([title |-> None, content |-> None])
    ELSE LET sec == response.section[1]
             title == IF sec.h1 # None THEN GetText(sec.h1[1]) ELSE NoTitle
             text_parts == (IF sec.objectives # None THEN <<GetText(sec.objectives[1])>> ELSE <<>>)
                           \o [k \in 1..Len(sec.paragraphs) |-> GetText(sec.paragraphs[k])]
             cleaned_text == Strip(CollapseSpaces(JoinWithSpace(text_parts)))
         IN  Returned([title |-> Some(title), content |-> Some(cleaned_text)])

\* the tokens made of word characters (letters, digits, "_") and "-" only: [\w-]+
IsWordOrHyphen(tok) ==
    tok \in {"nurseassist", "chapter", "front-matter", "back-matter",
             "1-1", "2-1", "8_4", "intro", "appendix", "sec"}

\* extract_chapter_number with the pattern /chapter/([\w-]+)$
extract_chapter_number_no_slash(url) ==
    IF /\ Len(url) >= 4
       /\ SubSeq(url, Len(url) - 3, Len(url) - 1) = <<"/", "chapter", "/">>
       /\ IsWordOrHyphen(url[Len(url)])
    THEN url[Len(url)]
    ELSE "N/A"

\* extract_chapter_number(url): re.search(r'/chapter/([\w-]+)/?$', url)
extract_chapter_number(url) ==
    LET u == IF url # <<>> /\ url[Len(url)] = "/" THEN SubSeq(url, 1, Len(url) - 1) ELSE url
    IN  IF /\ Len(u) >= 4
           /\ SubSeq(u, Len(u) - 3, Len(u) - 1) = <<"/", "chapter", "/">>
           /\ IsWordOrHyphen(u[Len(u)])
        THEN u[Len(u)]
        ELSE "N/A"

----------------------------------------------------------------------------
(* The inputs: what the seed address and the content addresses answer.     *)

H_ch1 == <<"/", "nurseassist", "/", "chapter", "/", "1-1", "/">>
H_ch1_abs == base_url \o <<"chapter", "/", "1-1", "/">>
H_ch1_rel == <<"chapter", "/", "1-1", "/">>
H_ch84 == <<"/", "nurseassist", "/", "chapter", "/", "8_4">>
H_ch2_frag == <<"/", "nurseassist", "/", "chapter", "/", "2-1", "/", "#", "sec">>
H_fm == <<"/", "nurseassist", "/", "front-matter", "/", "intro", "/">>
H_nav == <<"/", "nurseassist", "/", "back-matter", "/", "appendix", "/">>

\* hrefs of the links when the walker is run on its links: a missing href,
\* three spellings of one chapter address, a front-matter and a navigation link
WalkHrefs == {None, Some(H_ch1), Some(H_ch1_abs), Some(H_ch1_rel), Some(H_fm), Some(H_nav)}
\* hrefs of the links when the walker is run on part headers
PartHrefs == {Some(H_ch1), Some(H_fm)}
\* hrefs of the links of the tables of contents main is run on
MainHrefs == {Some(H_ch1), Some(H_ch84), Some(H_ch2_frag), Some(H_fm)}

Header(span) == Some([span |-> span])
\* class and header of a li: plain, a part without header, a part whose header
\* has no span, parts with a name, a part with an empty span, and a li that
\* has a header but no part class
PartKinds ==
    { [class |-> {}, header |-> None],
      [class |-> {"part"}, header |-> None],
      [class |-> {"part"}, header |-> Header(None)],
      [class |-> {"part"}, header |-> Header(Some(<<"Fundamentals">>))],
      [class |-> {"part"}, header |-> Header(Some(<<" ", "Care", "\n">>))],
      [class |-> {"part"}, header |-> Header(Some(<<>>))],
      [class |-> {"chapter"}, header |-> Header(Some(<<"Care">>))] }
MainKinds ==
    { [class |-> {}, header |-> None],
      [class |-> {"part"}, header |-> Header(Some(<<" ", "Care", "\n">>))] }
WalkKinds == { [class |-> {}, header |-> None] }

LiSet(kinds, hrefs, nLinks) ==
    {[class |-> k.class, header |-> k.header, links |-> l] :
        k \in kinds, l \in SeqsUpTo(hrefs, nLinks)}

\* the seed address cannot be fetched, or its page has no ol.toc
FailedSeeds ==
    {[status |-> st, toc |-> None] : st \in {"unreachable", "http_error", "ok"}}

\* the seed page has a table of contents of lis, as many as counts allows
SeedResponses(lis, counts) ==
    FailedSeeds \cup
    {[status |-> "ok", toc |-> Some(t)] : t \in UNION {[1..n -> lis] : n \in counts}}

Section(h1, objectives, paragraphs) ==
    Some([h1 |-> h1, objectives |-> objectives, paragraphs |-> paragraphs])

\* what a content address can answer: no answer, a page without
\* section.chapter, a section without text, a short page, a long page
ContentResponses ==
    { [status |-> "unreachable", section |-> None],
      [status |-> "ok", section |-> None],
      [status |-> "ok", section |-> Section(Some(<<"T">>), None, <<>>)],
      [status |-> "ok", section |-> Section(Some(<<" ", "T">>), None, << <<"a", "a", "\n">> >>)],
      [status |-> "ok", section |-> Section(None, Some(<<"a", ".">>),
                                            << <<" ", "a", ".", "\n">>, <<"a", ".", " ", " ", "a">> >>)] }

----------------------------------------------------------------------------
(* main.                                                                   *)

\* line 144: f"chunk_{chunk_index}"
ChunkId(chunk_index) == <<"chunk_", chunk_index>>

\* EnumerateIndex that counts on from the records already in all_chunks
EnumerateIndex_Running(k, n) == n + k - 1

\* line 136: the index enumerate gives the chunk at (1-based) position k of
\* chunks, when all_chunks already holds n records
EnumerateIndex(k, n) == k - 1

\* lines 133-146: the records of one location
ChunkRecords(url_info, title, chunks, n) ==
    [k \in 1..Len(chunks) |->
        [page_content |-> chunks[k],
         metadata |-> [part_title |-> url_info.part_title,
                       chapter_number |-> extract_chapter_number(url_info.url),
                       title |-> title,
                       source_url |-> url_info.url,
                       chunk_id |-> ChunkId(EnumerateIndex(k, n))]]]

\* AppendAll that puts the new records in front
AppendAll_Front(chunks_so_far, records) == records \o chunks_so_far

\* line 137: all_chunks.append, for every record of the location in turn
AppendAll(chunks_so_far, records) == chunks_so_far \o records

\* line 129: not content
NoContent(content) == content = None \/ content[1] = <<>>

\* AfterSkip that leaves the loop (break)
AfterSkip_Break(i, n) == n

\* lines 129-131: the number of iterations done after a skipped location, the
\* i-th of n (continue)
AfterSkip(i, n) == i

\* lines 107-110: phase 1
Phase1 ==
    /\ pc = "start"
    /\ LET r == get_structured_urls(seed)
       IN  IF r.raised
           THEN pc' = "raised" /\ UNCHANGED structured_urls
           ELSE /\ structured_urls' = r.value
                /\ pc' = IF r.value = <<>> THEN "done" ELSE "loop"
    /\ UNCHANGED <<seed, idx, all_chunks, visits, saved, text, split_out>>

\* lines 122-146: one iteration of the loop over structured_urls
ProcessLocation ==
    /\ pc = "loop"
    /\ idx < Len(structured_urls)
    /\ \E response \in ContentResponses :
        LET url_info == structured_urls[idx + 1]
            r == scrape_and_clean_content(response)
        IN  IF r.raised
            THEN /\ pc' = "raised"
                 /\ UNCHANGED <<idx, all_chunks, visits>>
            ELSE IF NoContent(r.value.content)
            THEN /\ idx' = AfterSkip(idx + 1, Len(structured_urls))
                 /\ visits' = Append(visits, [url |-> url_info.url, response |-> response,
                                              chunks |-> <<>>])
                 /\ UNCHANGED <<pc, all_chunks>>
            ELSE LET chunks == split_text(r.value.content[1])
                 IN  /\ all_chunks' = AppendAll(all_chunks,
                                                ChunkRecords(url_info, r.value.title[1],
                                                             chunks, Len(all_chunks)))
                     /\ visits' = Append(visits, [url |-> url_info.url, response |-> response,
                                                  chunks |-> chunks])
                     /\ idx' = idx + 1
                     /\ UNCHANGED pc
    /\ UNCHANGED <<seed, structured_urls, saved, text, split_out>>

\* lines 148-158: the loop is over; the file is written, or the write fails
SaveOutput ==
    /\ pc = "loop"
    /\ idx >= Len(structured_urls)
    /\ \E written \in BOOLEAN :
        saved' = IF written THEN Some(all_chunks) ELSE None
    /\ pc' = "done"
    /\ UNCHANGED <<seed, structured_urls, idx, all_chunks, visits, text, split_out>>

Init ==
    /\ pc = "start"
    /\ seed \in SeedResponses(LiSet(MainKinds, MainHrefs, MainLinks), {0, 1})
    /\ structured_urls = <<>>
    /\ idx = 0
    /\ all_chunks = <<>>
    /\ visits = <<>>
    /\ saved = None
    /\ text = <<>>
    /\ split_out = <<>>

Next == Phase1 \/ ProcessLocation \/ SaveOutput

Spec == Init /\ [][Next]_vars

----------------------------------------------------------------------------
(* The walker run on its own: on tables of contents with many kinds of      *)
(* links (WalkSpec), and on ones with many kinds of part headers (PartSpec). *)

WalkInit ==
    /\ pc = "start"
    /\ seed \in SeedResponses(LiSet(WalkKinds, WalkHrefs, MaxLinks), {0, 1, 2})
    /\ structured_urls = <<>>
    /\ idx = 0
    /\ all_chunks = <<>>
    /\ visits = <<>>
    /\ saved = None
    /\ text = <<>>
    /\ split_out = <<>>

WalkNext == Phase1

WalkSpec == WalkInit /\ [][WalkNext]_vars

PartInit ==
    /\ pc = "start"
    /\ seed \in SeedResponses(LiSet(PartKinds, PartHrefs, 2), 0..MaxItems)
    /\ structured_urls = <<>>
    /\ idx = 0
    /\ all_chunks = <<>>
    /\ visits = <<>>
    /\ saved = None
    /\ text = <<>>
    /\ split_out = <<>>

PartNext == Phase1

PartSpec == PartInit /\ [][PartNext]_vars

----------------------------------------------------------------------------
(* The splitter run on its own, on every text up to MaxLen.                *)

SplitInit ==
    /\ text \in SeqsUpTo(Alphabet, MaxLen)
    /\ split_out = <<>>
    /\ pc = "start" /\ seed = <<>> /\ structured_urls = <<>> /\ idx = 0
    /\ all_chunks = <<>> /\ visits = <<>> /\ saved = <<>>

CallSplitText ==
    /\ split_out = <<>>
    /\ split_out' = <<split_text(text)>>
    /\ UNCHANGED <<pc, seed, structured_urls, idx, all_chunks, visits, saved, text>>

SplitNext == CallSplitText

SplitSpec == SplitInit /\ [][SplitNext]_vars

----------------------------------------------------------------------------
(* Claims about the walker (checked under WalkSpec and PartSpec).          *)

\* phase 1 has returned a walk of a table of contents
Walked == pc \in {"loop", "done"} /\ seed.status = "ok" /\ seed.toc # None

\* the top-level items of the table of contents
TocItems == seed.toc[1]

\* every link of the table of contents in document order, with its item
FlatLinks ==
    Concat([k \in 1..Len(TocItems) |->
              [j \in 1..Len(TocItems[k].links) |-> [item |-> k, href |-> TocItems[k].links[j]]]])

\* the links that became candidate locations, in document order
Candidates == SelectSeq(FlatLinks, LAMBDA l : IsContentHref(l.href))

CandidateUrl(l) == urljoin(base_url, l.href[1])

\* position of the first candidate that resolves to url
FirstCandidate(url) ==
    CHOOSE k \in 1..Len(Candidates) :
        /\ CandidateUrl(Candidates[k]) = url
        /\ \A j \in 1..(k - 1) : CandidateUrl(Candidates[j]) # url

\* C1: the walker's list holds no url twice, holds exactly the candidates'
\* urls, and lists them in the order of their first occurrence among the links
\* of the top-level items.
C1_UniqueInFirstOccurrenceOrder ==
    Walked =>
        /\ \A a, b \in 1..Len(structured_urls) :
              a # b => structured_urls[a].url # structured_urls[b].url
        /\ {structured_urls[a].url : a \in 1..Len(structured_urls)}
              = {CandidateUrl(Candidates[k]) : k \in 1..Len(Candidates)}
        /\ \A a, b \in 1..Len(structured_urls) :
              a < b => FirstCandidate(structured_urls[a].url)
                         < FirstCandidate(structured_urls[b].url)

\* a url occurs, another follows, the first occurs again (written differently)
C1_Witness ==
    /\ Walked
    /\ Len(Candidates) = 3
    /\ CandidateUrl(Candidates[1]) = CandidateUrl(Candidates[3])
    /\ Candidates[1].href # Candidates[3].href
    /\ CandidateUrl(Candidates[1]) # CandidateUrl(Candidates[2])
    /\ Len(structured_urls) = 2

\* the item carries a part marker and a part-name text that can be extracted
HasPartName(li) == "part" \in li.class /\ li.header # None /\ li.header[1].span # None

\* the part-name text of such an item
PartName(li) == Strip(li.header[1].span[1])

\* the title claimed for a url that first occurs in item k
ClaimedPartTitle(k) ==
    IF \E j \in 1..k : HasPartName(TocItems[j])
    THEN PartName(TocItems[CHOOSE j \in 1..k :
                             /\ HasPartName(TocItems[j])
                             /\ \A i \in (j + 1)..k : ~HasPartName(TocItems[i])])
    ELSE <<"General">>

MatchesPathPattern(url) ==
    \/ Contains(url, <<"/", "chapter", "/">>)
    \/ Contains(url, <<"/", "front-matter", "/">>)

\* C7: the urls of the walker's list are exactly the resolved addresses, of the
\* anchors under the top-level items, that match the chapter pattern or the
\* front-matter pattern.
C7_AdmittedIffResolvedAddressMatches ==
    Walked =>
        {structured_urls[a].url : a \in 1..Len(structured_urls)}
            = {urljoin(base_url, FlatLinks[k].href[1]) :
                  k \in {i \in 1..Len(FlatLinks) :
                            /\ FlatLinks[i].href # None
                            /\ MatchesPathPattern(urljoin(base_url, FlatLinks[i].href[1]))}}

----------------------------------------------------------------------------
(* Claims about main (checked under Spec).                                 *)

\* the fetch of the location failed, or its page has no content container
FetchFailedOrNoContainer(response) == RequestFails(response) \/ response.section = None

\* the location has content: the normalizer returns a text that is not empty
HasContent(response) == ~NoContent(scrape_and_clean_content(response).value.content)

\* the records of all_chunks that name url as their source, in output order
RecordsOf(url) == SelectSeq(all_chunks, LAMBDA c : c.metadata.source_url = url)

\* C3: a location whose fetch fails or whose content container is absent leaves
\* no record in all_chunks, the run does not abort, the locations are visited
\* in the walker's order, every one of them by the end of the run, and each
\* that has content contributes its chunks.
C3_FailedLocationIsSkippedRunGoesOn ==
    /\ pc # "raised"
    /\ Len(visits) <= Len(structured_urls)
    /\ \A k \in 1..Len(visits) :
          /\ visits[k].url = structured_urls[k].url
          /\ FetchFailedOrNoContainer(visits[k].response) => RecordsOf(visits[k].url) = <<>>
          /\ HasContent(visits[k].response) => RecordsOf(visits[k].url) # <<>>
    /\ (pc = "done" /\ structured_urls # <<>>) => Len(visits) = Len(structured_urls)

\* a failed fetch, then a page without container, then a page with content
C3_Witness ==
    /\ pc = "done"
    /\ Len(visits) = 3
    /\ RequestFails(visits[1].response)
    /\ ~RequestFails(visits[2].response) /\ visits[2].response.section = None
    /\ HasContent(visits[3].response)
    /\ RecordsOf(visits[1].url) = <<>> /\ RecordsOf(visits[2].url) = <<>>
    /\ Len(all_chunks) = Len(RecordsOf(visits[3].url)) /\ Len(all_chunks) > 1

\* position of the location a record comes from in the walker's list
LocationIndex(c) ==
    CHOOSE k \in 1..Len(structured_urls) : structured_urls[k].url = c.metadata.source_url

\* C4: records of different locations appear in the order of their locations
\* in the walker's list, and the records of one location carry the chunks the
\* splitter returned for it, in the order it returned them.
C4_LocationOrderThenChunkOrder ==
    /\ \A a, b \in 1..Len(all_chunks) :
          a < b => LocationIndex(all_chunks[a]) <= LocationIndex(all_chunks[b])
    /\ \A k \in 1..Len(visits) :
          LET recs == RecordsOf(visits[k].url)
          IN  [j \in 1..Len(recs) |-> recs[j].page_content] = visits[k].chunks

\* three locations with content, the first of them cut into several chunks
\* that are not all the same
C4_Witness ==
    /\ pc = "done"
    /\ Len(visits) = 3
    /\ \A k \in 1..3 : visits[k].chunks # <<>>
    /\ Len(visits[1].chunks) > 1
    /\ visits[1].chunks[1] # visits[1].chunks[2]
    /\ Len(visits[2].chunks) = 1

\* C8: the records of every location carry the chunk ids chunk_0, chunk_1, ...
\* in output order, whatever the locations before it produced.
C8_ChunkIndexRestartsPerLocation ==
    \A k \in 1..Len(structured_urls) :
        LET recs == RecordsOf(structured_urls[k].url)
        IN  \A j \in 1..Len(recs) : recs[j].metadata.chunk_id = <<"chunk_", j - 1>>

\* a location with several chunks, a skipped location, a location with chunks
C8_Witness ==
    /\ pc = "done"
    /\ Len(visits) = 3
    /\ Len(visits[1].chunks) > 1
    /\ visits[2].chunks = <<>>
    /\ Len(visits[3].chunks) > 1
    /\ all_chunks[Len(visits[1].chunks) + 1].metadata.chunk_id = <<"chunk_", 0>>

\* discovery failed, or the table of contents has no qualifying link
NothingDiscovered ==
    \/ RequestFails(seed)
    \/ seed.toc = None
    \/ \A k \in 1..Len(seed.toc[1]) :
          \A j \in 1..Len(seed.toc[1][k].links) : ~IsContentHref(seed.toc[1][k].links[j])

\* C9: when discovery fails or finds nothing, get_structured_urls returns the
\* empty list without raising and main ends at once: nothing is fetched, no
\* record is produced, no exception leaves main.
C9_NothingDiscoveredEndsRunEmpty ==
    (pc # "start" /\ NothingDiscovered) =>
        /\ get_structured_urls(seed) = Returned(<<>>)
        /\ pc = "done"
        /\ structured_urls = <<>>
        /\ visits = <<>>
        /\ all_chunks = <<>>

\* the seed address could not be reached and main has ended
C9_Witness ==
    /\ pc = "done"
    /\ seed.status = "unreachable"
    /\ visits = <<>> /\ all_chunks = <<>>

\* the path of an address: what precedes its query and fragment
RECURSIVE PathOf(_)
PathOf(url) ==
    IF url = <<>> \/ Head(url) \in {"?", "#"} THEN <<>>
    ELSE <<Head(url)>> \o PathOf(Tail(url))

\* the tokens made of letters, digits and "-" only
IsAlnumOrHyphen(tok) ==
    tok \in {"nurseassist", "chapter", "front-matter", "back-matter",
             "1-1", "2-1", "intro", "appendix", "sec"}

\* the chapter identifier claimed for an address
ClaimedChapter(url) ==
    LET path == PathOf(url)
        p == IF path # <<>> /\ path[Len(path)] = "/"
             THEN SubSeq(path, 1, Len(path) - 1) ELSE path
    IN  IF /\ Len(p) >= 4
           /\ SubSeq(p, Len(p) - 3, Len(p) - 1) = <<"/", "chapter", "/">>
           /\ IsAlnumOrHyphen(p[Len(p)])
        THEN p[Len(p)]
        ELSE "N/A"

\* C10: every record carries, as its chapter identifier, the last segment of
\* its location's path when that path is a chapter path whose last segment is
\* made of alphanumerics and hyphens (with or without a trailing slash), and
\* "N/A" otherwise.
C10_ChapterIdIsTrailingSegment ==
    \A a \in 1..Len(all_chunks) :
        all_chunks[a].metadata.chapter_number
            = ClaimedChapter(all_chunks[a].metadata.source_url)

\* the chapter identifier of an address that ends with /chapter/<slug> or
\* /chapter/<slug>/, the slug made of word characters and hyphens
TrailingSlug(url) ==
    IF \E k \in 1..Len(url) :
          /\ IsWordOrHyphen(url[k])
          /\ \/ EndsWith(url, <<"/", "chapter", "/", url[k]>>)
             \/ EndsWith(url, <<"/", "chapter", "/", url[k], "/">>)
    THEN url[CHOOSE k \in 1..Len(url) :
                /\ IsWordOrHyphen(url[k])
                /\ \/ EndsWith(url, <<"/", "chapter", "/", url[k]>>)
                   \/ EndsWith(url, <<"/", "chapter", "/", url[k], "/">>)]
    ELSE "N/A"

\* C10 amended: every record carries the slug when the whole address, query and
\* fragment included, ends with /chapter/<slug> or /chapter/<slug>/ and the slug
\* is made of word characters (letters, digits, underscore) and hyphens, and
\* "N/A" otherwise.
C10_ChapterIdIsTrailingSlugOfAddress ==
    \A a \in 1..Len(all_chunks) :
        all_chunks[a].metadata.chapter_number
            = TrailingSlug(all_chunks[a].metadata.source_url)

\* records of a chapter address with a trailing slash, of one whose slug holds
\* an underscore, and of a chapter address followed by a fragment
C10_Witness ==
    /\ pc = "done"
    /\ \E a, b, c \in 1..Len(all_chunks) :
          /\ all_chunks[a].metadata.chapter_number = "1-1"
          /\ EndsWith(all_chunks[a].metadata.source_url, <<"1-1", "/">>)
          /\ all_chunks[b].metadata.chapter_number = "8_4"
          /\ all_chunks[c].metadata.chapter_number = "N/A"
          /\ Contains(all_chunks[c].metadata.source_url, <<"/", "chapter", "/", "2-1", "/", "#">>)

----------------------------------------------------------------------------
(* Claims about the splitter (checked under SplitSpec).                    *)

\* the chunks split_text returned
Chunks == split_out[1]

RECURSIVE TrimConcat(_)
\* the chunks after the first, each without its first chunk_overlap characters, joined
TrimConcat(cs) ==
    IF cs = <<>> THEN <<>>
    ELSE SubSeq(Head(cs), chunk_overlap + 1, Len(Head(cs))) \o TrimConcat(Tail(cs))

\* the first chunk followed by the trimmed later chunks
Reassembled(cs) == IF cs = <<>> THEN <<>> ELSE Head(cs) \o TrimConcat(Tail(cs))

Max(a, b) == IF a >= b THEN a ELSE b
Min(a, b) == IF a <= b THEN a ELSE b

RECURSIVE Fits(_, _, _, _, _)
\* The chunks cs can be laid on the text t from left to right: each is the piece
\* of t at some offset p, no chunk starts before the one before it (which begins
\* at lo and ends at prevEnd), two neighbours share at most chunk_overlap
\* characters, and every character no chunk covers (covered: how far the chunks
\* so far reach) is whitespace.
Fits(t, cs, lo, prevEnd, covered) ==
    IF cs = <<>> THEN \A j \in (covered + 1)..Len(t) : IsSpace(t[j])
    ELSE LET c == Head(cs)
         IN  \E p \in lo..(Len(t) - Len(c)) :
                /\ SubSeq(t, p + 1, p + Len(c)) = c
                /\ Min(prevEnd, p + Len(c)) - p <= chunk_overlap
                /\ \A j \in (covered + 1)..p : IsSpace(t[j])
                /\ Fits(t, Tail(cs), p, p + Len(c), Max(covered, p + Len(c)))

\* C5 as stated: trimming chunk_overlap leading characters from every chunk but
\* the first and concatenating gives back the text.
C5_TrimmedConcatIsText ==
    split_out # <<>> => Reassembled(Chunks) = text

\* C5 amended: the chunks are pieces of the text in text order, neighbours overlap
\* by at most chunk_overlap characters (not by exactly that many), and together
\* they cover every character of the text that is not whitespace.
C5_ChunksCoverTextInOrder ==
    split_out # <<>> => Fits(text, Chunks, 0, 0, 0)

\* a text without whitespace at its ends, cut into two chunks that share
\* characters, while trimming chunk_overlap characters does not give it back
C5_Witness ==
    /\ split_out # <<>>
    /\ Strip(text) = text
    /\ Len(Chunks) = 2
    /\ Len(text) < Len(Chunks[1]) + Len(Chunks[2])
    /\ Reassembled(Chunks) # text

\* C6 as stated: a text shorter than chunk_size comes back as exactly one chunk,
\* equal to the text.
C6_ShortTextIsSoleChunk ==
    (split_out # <<>> /\ Len(text) < chunk_size) => Chunks = <<text>>

\* C6 amended: a text shorter than chunk_size comes back as one chunk equal to the
\* text with its leading and trailing whitespace stripped, and as no chunk at all
\* when nothing is left of it (the empty text, a text of whitespace only).
C6_ShortTextIsStrippedChunk ==
    (split_out # <<>> /\ Len(text) < chunk_size) =>
        Chunks = (IF Strip(text) = <<>> THEN <<>> ELSE <<Strip(text)>>)

\* a short text with a separator inside and whitespace in front was split
C6_Witness ==
    /\ split_out # <<>>
    /\ Len(text) < chunk_size
    /\ Contains(text, <<".", " ">>)
    /\ IsSpace(text[1])
    /\ Chunks = <<Strip(text)>>

====
